---------------------------- MODULE Spec2Model ----------------------------
(***************************************************************************)
(* A model of the lending_pool program                                     *)
(* (contracts/solana/programs/lending_pool/src/lib.rs).                    *)
(*                                                                         *)
(* Every instruction handler is an operator that maps the accounts it is   *)
(* given and its arguments to an outcome: the error it returns ("Ok" when  *)
(* it succeeds) and the ledger it leaves.  A failed instruction leaves the *)
(* ledger as it found it: the runtime rolls a failed transaction back.     *)
(*                                                                         *)
(* u64 values are kept exactly.  TLC's integers are 32 bits wide, so a u64 *)
(* is a sequence of base-10^4 limbs, least significant first, without high *)
(* zero limbs (<<>> is 0), and the checked_* operators compare against     *)
(* u64::MAX as the Rust ones do.                                           *)
(***************************************************************************)
EXTENDS Integers, Sequences, FiniteSets, TLC

(***************************************************************************)
(* u64 arithmetic                                                          *)
(***************************************************************************)
Base == 10 ^ 4

RECURSIVE Trim(_)
Trim(s) ==
    IF s = <<>> THEN s
    ELSE IF s[Len(s)] = 0 THEN Trim(SubSeq(s, 1, Len(s) - 1)) ELSE s

\* The u64 with the value n, for a literal n below 10^9.
U64(n) == Trim(<<n % Base, (n \div Base) % Base, n \div (Base * Base)>>)

Limb(a, i) == IF i <= Len(a) THEN a[i] ELSE 0

RECURSIVE CmpFrom(_, _, _)
CmpFrom(a, b, i) ==
    IF i = 0 THEN 0
    ELSE IF a[i] < b[i] THEN -1
    ELSE IF a[i] > b[i] THEN 1
    ELSE CmpFrom(a, b, i - 1)

\* -1, 0 or 1 as a < b, a = b or a > b.
Cmp(a, b) ==
    IF Len(a) < Len(b) THEN -1
    ELSE IF Len(a) > Len(b) THEN 1
    ELSE CmpFrom(a, b, Len(a))

Lt(a, b) == Cmp(a, b) < 0
Le(a, b) == Cmp(a, b) <= 0
Ge(a, b) == Cmp(a, b) >= 0
Gt(a, b) == Cmp(a, b) > 0

RECURSIVE AddFrom(_, _, _, _)
AddFrom(a, b, i, c) ==
    IF i > Len(a) /\ i > Len(b)
    THEN (IF c = 0 THEN <<>> ELSE <<c>>)
    ELSE LET x == Limb(a, i) + Limb(b, i) + c
         IN  <<x % Base>> \o AddFrom(a, b, i + 1, x \div Base)

Add(a, b) == Trim(AddFrom(a, b, 1, 0))

\* a - b for a >= b.
RECURSIVE SubFrom(_, _, _, _)
SubFrom(a, b, i, br) ==
    IF i > Len(a) THEN <<>>
    ELSE LET x == a[i] - Limb(b, i) - br
         IN  IF x < 0 THEN <<x + Base>> \o SubFrom(a, b, i + 1, 1)
                      ELSE <<x>> \o SubFrom(a, b, i + 1, 0)

Sub(a, b) == Trim(SubFrom(a, b, 1, 0))

\* a * k for one limb k.
RECURSIVE MulLimbFrom(_, _, _, _)
MulLimbFrom(a, k, i, c) ==
    IF i > Len(a)
    THEN (IF c = 0 THEN <<>> ELSE <<c>>)
    ELSE LET x == a[i] * k + c
         IN  <<x % Base>> \o MulLimbFrom(a, k, i + 1, x \div Base)

MulLimb(a, k) == Trim(MulLimbFrom(a, k, 1, 0))

ShiftUp(a) == IF a = <<>> THEN a ELSE <<0>> \o a

RECURSIVE MulFrom(_, _, _)
MulFrom(a, b, j) ==
    IF j > Len(b) THEN <<>>
    ELSE Add(MulLimb(a, b[j]), ShiftUp(MulFrom(a, b, j + 1)))

\* The full product, of any width.
Mul(a, b) == IF a = <<>> \/ b = <<>> THEN <<>> ELSE MulFrom(a, b, 1)

\* The largest q in lo..hi with q * b <= r, given lo * b <= r.
RECURSIVE QuotientLimb(_, _, _, _)
QuotientLimb(r, b, lo, hi) ==
    IF lo = hi THEN lo
    ELSE LET mid == (lo + hi + 1) \div 2
         IN  IF Le(MulLimb(b, mid), r)
             THEN QuotientLimb(r, b, mid, hi)
             ELSE QuotientLimb(r, b, lo, mid - 1)

\* Long division of the limbs a[i], ..., a[1] with the running remainder r.
RECURSIVE DivFrom(_, _, _, _)
DivFrom(a, b, i, r) ==
    IF i = 0 THEN <<>>
    ELSE LET r1 == Trim(<<a[i]>> \o r)
             d  == IF Lt(r1, b) THEN 0 ELSE QuotientLimb(r1, b, 1, Base - 1)
             r2 == Sub(r1, MulLimb(b, d))
         IN  DivFrom(a, b, i - 1, r2) \o <<d>>

\* The integer quotient a / b for b > 0.
Div(a, b) == Trim(DivFrom(a, b, Len(a), <<>>))

\* 10^d, for d <= 19 a u64.
Pow10(d) == [i \in 1..(d \div 4) |-> 0] \o <<10 ^ (d % 4)>>

\* u64::MAX = 18446744073709551615.
U64_MAX == <<1615, 955, 737, 6744, 1844>>

\* Option::None, the result of a checked operation that overflowed.
None == <<-1>>

checked_add(a, b) ==
    LET s == Add(a, b) IN IF Gt(s, U64_MAX) THEN None ELSE s

checked_sub(a, b) == IF Lt(a, b) THEN None ELSE Sub(a, b)

\* Faulty variant: the product wraps around modulo 2^64.
checked_mul_wrapping(a, b) ==
    LET p == Mul(a, b)
        m == Add(U64_MAX, U64(1))
    IN  Sub(p, Mul(Div(p, m), m))

checked_mul(a, b) ==
    LET p == Mul(a, b) IN IF Gt(p, U64_MAX) THEN None ELSE p

checked_div(a, b) == IF b = <<>> THEN None ELSE Div(a, b)

(***************************************************************************)
(* Program constants                                                       *)
(***************************************************************************)
PRECISION             == Pow10(18)
MIN_HEALTH_FACTOR     == PRECISION
LIQUIDATION_THRESHOLD == MulLimb(Pow10(16), 95)
LIQUIDATION_BONUS     == MulLimb(Pow10(16), 5)
MAX_LTV               == MulLimb(Pow10(16), 75)

\* get_asset_price: the placeholder oracle, the same price for every feed.
get_asset_price == Pow10(17)

calculate_usd_value(amount, price, decimals) ==
    LET m == checked_mul(amount, price)
    IN  IF m = None THEN None ELSE checked_div(m, Pow10(decimals))

\* Faulty variant: the threshold is applied and scaled down before the division.
calculate_health_factor_two_step(total_collateral_value_usd, total_borrow_value_usd, liquidation_threshold) ==
    IF total_borrow_value_usd = <<>> THEN U64_MAX
    ELSE LET m == checked_mul(total_collateral_value_usd, liquidation_threshold)
         IN  IF m = None THEN None
             ELSE checked_div(Mul(Div(m, PRECISION), PRECISION),
                              total_borrow_value_usd)

calculate_health_factor(total_collateral_value_usd, total_borrow_value_usd, liquidation_threshold) ==
    IF total_borrow_value_usd = <<>> THEN U64_MAX
    ELSE LET m == checked_mul(total_collateral_value_usd, liquidation_threshold)
         IN  IF m = None THEN None ELSE checked_div(m, total_borrow_value_usd)

\* Faulty variant: the bonus is left out.
calculate_liquidation_amount_no_bonus(debt_amount, debt_price, collateral_price, liquidation_bonus) ==
    LET debt_value == checked_mul(debt_amount, debt_price)
    IN  IF debt_value = None THEN None ELSE checked_div(debt_value, collateral_price)

calculate_liquidation_amount(debt_amount, debt_price, collateral_price, liquidation_bonus) ==
    LET debt_value == checked_mul(debt_amount, debt_price)
        bonus_mul  == IF debt_value = None THEN None
                      ELSE checked_mul(debt_value, liquidation_bonus)
        bonus      == IF bonus_mul = None THEN None
                      ELSE checked_div(bonus_mul, PRECISION)
        total      == IF bonus = None THEN None
                      ELSE checked_add(debt_value, bonus)
    IN  IF total = None THEN None ELSE checked_div(total, collateral_price)

\* Faulty variant: the stored health factor is left as it was.
update_health_factor_skipped(position) == [ok |-> TRUE, position |-> position]

\* update_health_factor: the position with its health factor recomputed from
\* its stored USD values; ok is FALSE when the computation panics.
update_health_factor(position) ==
    LET hf == calculate_health_factor(position.total_collateral_value_usd,
                                      position.total_borrow_value_usd,
                                      LIQUIDATION_THRESHOLD)
    IN  [ok |-> hf # None,
         position |-> IF hf = None THEN position
                      ELSE [position EXCEPT !.health_factor = hf]]

\* The cooldown of the rate limiter, in seconds.
COOLDOWN_SECONDS == 900

\* calculate_message_fee: base fee and fee per byte, in lamports.
BASE_FEE     == 1000000
FEE_PER_BYTE == 100

calculate_message_fee(message_len) == BASE_FEE + message_len * FEE_PER_BYTE

(***************************************************************************)
(* Bounds and inputs                                                       *)
(***************************************************************************)
\* The tokens a user holds at the start of each mint the user holds at all.
InitialTokens == 2
\* Outbound messages sent.
MaxNonce == 1
\* The nonces inbound messages arrive with; lz_receive only logs the nonce.
InboundNonces == {1}

Users  == {"u1", "u2"}
Admin  == "admin"
Signers == Users \cup {Admin}
DefaultPubkey == "default"
Mints  == {"m1", "m2"}
\* Mint::decimals of the SPL mints.
MintDecimals == [m \in Mints |-> IF m = "m1" THEN 6 ELSE 18]

\* The times the clock is read at: 0 is the timestamp of a new position, so
\* the first is one cooldown after it; then one second before the second
\* cooldown ends, and its end.
ClockSamples ==
    {COOLDOWN_SECONDS, 2 * COOLDOWN_SECONDS - 1, 2 * COOLDOWN_SECONDS}

\* The wallets at the start: u2 holds no m1.
InitialWallet ==
    [k \in Users \X Mints |->
        IF k = <<"u2", "m1">> THEN <<>> ELSE U64(InitialTokens)]

Amounts == {U64(0), U64(1), U64(2), U64(185)}

\* initialize: Sepolia, Arbitrum Sepolia, Base Sepolia.
SupportedChains == {40161, 40231, 40245}
\* Endpoint ids instructions are called with: a supported one and one that is not.
Chains == {40161, 30101}
\* PeerConfig accounts: the peer registered for each endpoint id.
PeerAddress == [c \in Chains |-> "peer"]
Senders == {"peer", "stranger"}
\* Who calls liquidate.
Liquidators == {"u2"}

\* The configurations the administrator registers a mint with.
AssetConfigs ==
    [m1 |-> { [ltv |-> MAX_LTV, liquidation_threshold |-> LIQUIDATION_THRESHOLD,
               can_be_collateral |-> TRUE, can_be_borrowed |-> TRUE],
              [ltv |-> PRECISION, liquidation_threshold |-> LIQUIDATION_THRESHOLD,
               can_be_collateral |-> TRUE, can_be_borrowed |-> FALSE] },
     m2 |-> { [ltv |-> MAX_LTV, liquidation_threshold |-> LIQUIDATION_THRESHOLD,
               can_be_collateral |-> TRUE, can_be_borrowed |-> TRUE] }]

\* A CrossChainMessage in Borsh field order.
Message(action, user, amount, asset, nonce) ==
    <<action, user, amount, asset, 0, 40161, 40168, "receiver", nonce>>

\* What try_from_slice reads back: the nine fields, or nothing.
BorshFields == 9
try_from_slice(payload) ==
    IF Len(payload) = BorshFields
    THEN [ok |-> TRUE, action |-> payload[1], user |-> payload[2],
          amount |-> payload[3], asset |-> payload[4], nonce |-> payload[9]]
    ELSE [ok |-> FALSE, action |-> "", user |-> DefaultPubkey,
          amount |-> <<>>, asset |-> DefaultPubkey, nonce |-> 0]

Payloads ==
    { Message(a, "u1", U64(1), "m2", 1) : a \in {"repay", "liquidate", "borrow"} }
        \cup { <<>>, SubSeq(Message("repay", "u1", U64(1), "m2", 1), 1, 8) }

MessageLens == {0, 32}
NativeFees  == {calculate_message_fee(32) - 1, calculate_message_fee(32)}

(***************************************************************************)
(* State                                                                   *)
(***************************************************************************)
VARIABLES
    now,        \* Clock::get().unix_timestamp
    pool,       \* the LendingPool account
    assets,     \* the AssetInfo account of each mint
    positions,  \* the UserPosition account of each (user, mint)
    tokens,     \* the token program's ledger: users' wallets and the pool's vaults
    delivered,  \* history: the (src_eid, sender, nonce) lz_receive has accepted
    probe       \* a helper function under test, its arguments and its result

vars == <<now, pool, assets, positions, tokens, delivered, probe>>

NoAsset ==
    [exists |-> FALSE, ltv |-> <<>>, liquidation_threshold |-> <<>>,
     is_active |-> FALSE, can_be_collateral |-> FALSE, can_be_borrowed |-> FALSE,
     total_deposits |-> <<>>, total_borrows |-> <<>>, decimals |-> 0]

\* A UserPosition account as init_if_needed creates it: all zero.
ZeroPosition ==
    [user |-> DefaultPubkey, collateral_balance |-> <<>>, borrow_balance |-> <<>>,
     total_collateral_value_usd |-> <<>>, total_borrow_value_usd |-> <<>>,
     health_factor |-> <<>>, last_action_timestamp |-> 0]

\* Only deposit creates a position account, and sets its user when it does.
PositionExists(p) == p.user # DefaultPubkey

\* No helper function is under test.
NoProbe == [fn |-> "none", args |-> <<>>, done |-> TRUE, out |-> <<>>]

Genesis ==
    /\ now = COOLDOWN_SECONDS
    /\ pool = [admin |-> Admin, is_paused |-> FALSE, total_assets |-> 0,
               message_nonce |-> 0, supported_chains |-> SupportedChains]
    /\ assets = [m \in Mints |-> NoAsset]
    /\ positions = [k \in Users \X Mints |-> ZeroPosition]
    /\ tokens = [wallet |-> InitialWallet,
                 vault  |-> [m \in Mints |-> <<>>]]
    /\ delivered = {}

\* The state after initialize.
Init == Genesis /\ probe = NoProbe

(***************************************************************************)
(* Outcomes                                                                *)
(***************************************************************************)
Ledger == [pool |-> pool, assets |-> assets, positions |-> positions,
           tokens |-> tokens]

\* The instruction failed with e: the transaction is rolled back.
Fail(e) == [err |-> e, ledger |-> Ledger, events |-> <<>>]

Done(l, ev) == [err |-> "Ok", ledger |-> l, events |-> ev]

\* Faulty variant: the cooldown is one second shorter.
RateLimited_short(position) ==
    position.last_action_timestamp + COOLDOWN_SECONDS - 1 > now

RateLimited(position) ==
    position.last_action_timestamp + COOLDOWN_SECONDS > now



(***************************************************************************)
(* Instruction handlers                                                    *)
(***************************************************************************)
add_supported_asset(signer, mint, asset_config) ==
    IF signer # pool.admin THEN Fail("ConstraintHasOne")
    ELSE IF assets[mint].exists THEN Fail("AccountAlreadyInUse")
    ELSE IF pool.is_paused THEN Fail("NotAuthorized")
    ELSE Done([Ledger EXCEPT
                 !.assets[mint] =
                     [exists |-> TRUE, ltv |-> asset_config.ltv,
                      liquidation_threshold |-> asset_config.liquidation_threshold,
                      is_active |-> TRUE,
                      can_be_collateral |-> asset_config.can_be_collateral,
                      can_be_borrowed |-> asset_config.can_be_borrowed,
                      total_deposits |-> <<>>, total_borrows |-> <<>>,
                      decimals |-> 0],
                 !.pool.total_assets = @ + 1],
              <<[event |-> "AssetAdded", mint |-> mint]>>)

\* Faulty variant: the balance is left as it was.
deposit_collateral_balance_stale(collateral_balance, amount) == collateral_balance

\* The position's collateral and the asset's aggregate after a deposit.
deposit_collateral_balance(collateral_balance, amount) ==
    checked_add(collateral_balance, amount)

\* Faulty variant: the aggregate is left as it was.
deposit_total_deposits_stale(total_deposits, amount) == total_deposits

deposit_total_deposits(total_deposits, amount) ==
    checked_add(total_deposits, amount)

\* Faulty variant: deposit does not look at the pause flag.
deposit_paused_never == FALSE

\* The pause check of deposit.
deposit_paused == pool.is_paused

deposit(user, mint, amount) ==
    LET position == positions[<<user, mint>>]
        asset    == assets[mint]
    IN
    IF ~asset.exists THEN Fail("AccountNotInitialized")
    ELSE IF ~Gt(amount, <<>>) THEN Fail("InvalidAmount")
    ELSE IF deposit_paused THEN Fail("NotAuthorized")
    ELSE IF ~asset.is_active THEN Fail("AssetNotSupported")
    ELSE IF ~asset.can_be_collateral THEN Fail("AssetNotSupported")
    ELSE IF RateLimited(position) THEN Fail("RateLimited")
    ELSE IF Lt(tokens.wallet[<<user, mint>>], amount) THEN Fail("InsufficientFunds")
    ELSE
    LET collateral == deposit_collateral_balance(position.collateral_balance, amount)
        total      == deposit_total_deposits(asset.total_deposits, amount)
    IN
    IF collateral = None \/ total = None THEN Fail("Panic")
    ELSE
    LET updated == update_health_factor(
                       [position EXCEPT !.user = user,
                                        !.collateral_balance = collateral,
                                        !.last_action_timestamp = now])
    IN
    IF ~updated.ok THEN Fail("Panic")
    ELSE Done([Ledger EXCEPT
                 !.tokens.wallet[<<user, mint>>] = Sub(@, amount),
                 !.tokens.vault[mint] = Add(@, amount),
                 !.positions[<<user, mint>>] = updated.position,
                 !.assets[mint].total_deposits = total],
              <<[event |-> "Deposit", user |-> user, mint |-> mint,
                 amount |-> amount]>>)

\* Faulty variant: the decimals of the mint itself.
borrow_decimals_of_mint(asset, mint) == MintDecimals[mint]

\* The decimals borrow_cross_chain passes to calculate_usd_value: the field
\* of the asset account.
borrow_decimals(asset, mint) == asset.decimals

borrow_cross_chain(user, mint, amount, dest_chain_id) ==
    LET position == positions[<<user, mint>>]
        asset    == assets[mint]
    IN
    IF ~asset.exists \/ ~PositionExists(position) THEN Fail("AccountNotInitialized")
    ELSE IF ~Gt(amount, <<>>) THEN Fail("InvalidAmount")
    ELSE IF pool.is_paused THEN Fail("NotAuthorized")
    ELSE IF ~asset.is_active THEN Fail("AssetNotSupported")
    ELSE IF ~asset.can_be_borrowed THEN Fail("AssetNotSupported")
    ELSE IF dest_chain_id \notin pool.supported_chains THEN Fail("ChainNotSupported")
    ELSE IF RateLimited(position) THEN Fail("RateLimited")
    ELSE
    LET collateral_price == get_asset_price
        borrow_price     == get_asset_price
        collateral_value == calculate_usd_value(position.collateral_balance,
                                                collateral_price,
                                                borrow_decimals(asset, mint))
        borrow_value     == calculate_usd_value(amount, borrow_price,
                                                borrow_decimals(asset, mint))
    IN
    IF collateral_value = None \/ borrow_value = None THEN Fail("Panic")
    ELSE
    LET new_total_borrow == checked_add(position.total_borrow_value_usd, borrow_value)
    IN
    IF new_total_borrow = None THEN Fail("MathOverflow")
    ELSE
    LET health_factor == calculate_health_factor(collateral_value, new_total_borrow,
                                                 LIQUIDATION_THRESHOLD)
    IN
    IF health_factor = None THEN Fail("Panic")
    ELSE IF ~Ge(health_factor, MIN_HEALTH_FACTOR) THEN Fail("HealthFactorTooLow")
    ELSE
    LET borrow == checked_add(position.borrow_balance, amount)
        total  == checked_add(asset.total_borrows, amount)
    IN
    IF borrow = None \/ total = None THEN Fail("Panic")
    ELSE Done([Ledger EXCEPT
                 !.positions[<<user, mint>>] =
                     [position EXCEPT !.borrow_balance = borrow,
                                      !.total_borrow_value_usd = new_total_borrow,
                                      !.health_factor = health_factor,
                                      !.last_action_timestamp = now],
                 !.assets[mint].total_borrows = total,
                 !.pool.message_nonce = @ + 1],
              <<[event |-> "Borrow", user |-> user, mint |-> mint,
                 amount |-> amount],
                [event |-> "CrossChainMessageSent", user |-> user,
                 nonce |-> (pool.message_nonce + 1) - 1,
                 message |-> Message("borrow", user, amount, mint,
                                     pool.message_nonce)]>>)

repay(user, mint, repay_amount) ==
    LET position == positions[<<user, mint>>]
        asset    == assets[mint]
    IN
    IF ~asset.exists \/ ~PositionExists(position) THEN Fail("AccountNotInitialized")
    ELSE IF ~Gt(repay_amount, <<>>) THEN Fail("InvalidAmount")
    ELSE IF pool.is_paused THEN Fail("NotAuthorized")
    ELSE IF position.user = DefaultPubkey THEN Fail("PositionNotFound")
    ELSE IF ~Ge(position.borrow_balance, repay_amount) THEN Fail("InvalidAmount")
    ELSE IF RateLimited(position) THEN Fail("RateLimited")
    ELSE IF Lt(tokens.wallet[<<user, mint>>], repay_amount)
         THEN Fail("InsufficientFunds")
    ELSE
    LET borrow == checked_sub(position.borrow_balance, repay_amount)
        total  == checked_sub(asset.total_borrows, repay_amount)
    IN
    IF borrow = None \/ total = None THEN Fail("Panic")
    ELSE
    LET updated == update_health_factor(
                       [position EXCEPT !.borrow_balance = borrow,
                                        !.last_action_timestamp = now])
    IN
    IF ~updated.ok THEN Fail("Panic")
    ELSE Done([Ledger EXCEPT
                 !.tokens.wallet[<<user, mint>>] = Sub(@, repay_amount),
                 !.tokens.vault[mint] = Add(@, repay_amount),
                 !.positions[<<user, mint>>] = updated.position,
                 !.assets[mint].total_borrows = total],
              <<[event |-> "Repay", user |-> user, mint |-> mint,
                 amount |-> repay_amount]>>)

\* remaining is the number of remaining accounts the caller passes: the price
\* feed is read from the first.
\* Faulty variant: any amount counts as covered.
withdraw_covered_always(position, amount) == TRUE

\* The balance check of withdraw.
withdraw_covered(position, amount) == Ge(position.collateral_balance, amount)

withdraw(user, mint, amount, remaining) ==
    LET position == positions[<<user, mint>>]
        asset    == assets[mint]
    IN
    IF ~asset.exists \/ ~PositionExists(position) THEN Fail("AccountNotInitialized")
    ELSE IF ~Gt(amount, <<>>) THEN Fail("InvalidAmount")
    ELSE IF pool.is_paused THEN Fail("NotAuthorized")
    ELSE IF ~withdraw_covered(position, amount) THEN Fail("InsufficientCollateral")
    ELSE IF remaining = 0 THEN Fail("Panic")
    ELSE
    LET price              == get_asset_price
        withdraw_value_usd == calculate_usd_value(amount, price, MintDecimals[mint])
        new_collateral_value ==
            IF withdraw_value_usd = None THEN None
            ELSE checked_sub(position.total_collateral_value_usd, withdraw_value_usd)
    IN
    IF new_collateral_value = None THEN Fail("Panic")
    ELSE
    LET new_health_factor ==
            calculate_health_factor(new_collateral_value,
                                    position.total_borrow_value_usd,
                                    asset.liquidation_threshold)
    IN
    IF new_health_factor = None THEN Fail("Panic")
    ELSE IF ~Ge(new_health_factor, MIN_HEALTH_FACTOR) THEN Fail("HealthFactorTooLow")
    ELSE IF Lt(tokens.vault[mint], amount) THEN Fail("InsufficientFunds")
    ELSE
    LET collateral == checked_sub(position.collateral_balance, amount)
        total      == checked_sub(asset.total_deposits, amount)
    IN
    IF collateral = None \/ total = None THEN Fail("Panic")
    ELSE Done([Ledger EXCEPT
                 !.tokens.vault[mint] = Sub(@, amount),
                 !.tokens.wallet[<<user, mint>>] = Add(@, amount),
                 !.positions[<<user, mint>>] =
                     [position EXCEPT
                        !.collateral_balance = collateral,
                        !.total_collateral_value_usd = new_collateral_value,
                        !.health_factor = new_health_factor],
                 !.assets[mint].total_deposits = total],
              <<[event |-> "Withdraw", user |-> user, mint |-> mint,
                 amount |-> amount]>>)

\* Faulty variant: the comparison the other way round.
liquidation_check_flipped(position) ==
    LET health_factor ==
            calculate_health_factor(position.total_collateral_value_usd,
                                    position.total_borrow_value_usd,
                                    LIQUIDATION_THRESHOLD)
    IN  IF health_factor = None THEN "Panic"
        ELSE IF Lt(health_factor, LIQUIDATION_THRESHOLD) THEN "LiquidationNotAllowed"
        ELSE "Ok"

\* Faulty variant: the borrower's cooldown stands in the way.
liquidation_check_cooldown(position) ==
    LET health_factor ==
            calculate_health_factor(position.total_collateral_value_usd,
                                    position.total_borrow_value_usd,
                                    LIQUIDATION_THRESHOLD)
    IN  IF RateLimited(position) THEN "RateLimited"
        ELSE IF health_factor = None THEN "Panic"
        ELSE IF ~Lt(health_factor, LIQUIDATION_THRESHOLD) THEN "LiquidationNotAllowed"
        ELSE "Ok"

\* The eligibility check of liquidate on a position: Ok, the error it raises,
\* or Panic.
liquidation_check(position) ==
    LET health_factor ==
            calculate_health_factor(position.total_collateral_value_usd,
                                    position.total_borrow_value_usd,
                                    LIQUIDATION_THRESHOLD)
    IN  IF health_factor = None THEN "Panic"
        ELSE IF ~Lt(health_factor, LIQUIDATION_THRESHOLD) THEN "LiquidationNotAllowed"
        ELSE "Ok"

liquidate(liquidator, borrower, debt_mint, collateral_mint, debt_amount) ==
    LET borrower_position == positions[<<borrower, debt_mint>>]
    IN
    IF ~PositionExists(borrower_position) THEN Fail("AccountNotInitialized")
    ELSE IF ~Gt(debt_amount, <<>>) THEN Fail("InvalidAmount")
    ELSE IF liquidation_check(borrower_position) # "Ok"
         THEN Fail(liquidation_check(borrower_position))
    ELSE
    LET debt_price          == get_asset_price
        collateral_price    == get_asset_price
        collateral_to_seize == calculate_liquidation_amount(
                                   debt_amount, debt_price, collateral_price,
                                   LIQUIDATION_BONUS)
    IN
    IF collateral_to_seize = None THEN Fail("Panic")
    ELSE IF ~Ge(borrower_position.collateral_balance, collateral_to_seize)
         THEN Fail("InsufficientCollateral")
    ELSE IF Lt(tokens.wallet[<<liquidator, debt_mint>>], debt_amount)
         THEN Fail("InsufficientFunds")
    ELSE IF Lt(Add(tokens.vault[collateral_mint],
                   IF collateral_mint = debt_mint THEN debt_amount ELSE <<>>),
               collateral_to_seize)
         THEN Fail("InsufficientFunds")
    ELSE
    LET borrow     == checked_sub(borrower_position.borrow_balance, debt_amount)
        collateral == checked_sub(borrower_position.collateral_balance,
                                  collateral_to_seize)
    IN
    IF borrow = None \/ collateral = None THEN Fail("Panic")
    ELSE
    LET updated == update_health_factor(
                       [borrower_position EXCEPT !.borrow_balance = borrow,
                                                 !.collateral_balance = collateral])
        paid    == [tokens EXCEPT
                      !.wallet[<<liquidator, debt_mint>>] = Sub(@, debt_amount),
                      !.vault[debt_mint] = Add(@, debt_amount)]
        seized  == [paid EXCEPT
                      !.vault[collateral_mint] = Sub(@, collateral_to_seize),
                      !.wallet[<<liquidator, collateral_mint>>] =
                          Add(@, collateral_to_seize)]
    IN
    IF ~updated.ok THEN Fail("Panic")
    ELSE Done([Ledger EXCEPT
                 !.tokens = seized,
                 !.positions[<<borrower, debt_mint>>] = updated.position],
              <<[event |-> "Liquidation", borrower |-> borrower,
                 debt_amount |-> debt_amount,
                 collateral_seized |-> collateral_to_seize]>>)

\* Faulty variant: the signer is not compared with the pool's admin.
pause_by_anyone(signer) ==
    IF pool.is_paused THEN Fail("NotAuthorized")
    ELSE Done([Ledger EXCEPT !.pool.is_paused = TRUE],
              <<[event |-> "ProtocolPaused"]>>)

pause(signer) ==
    IF signer # pool.admin THEN Fail("ConstraintHasOne")
    ELSE IF pool.is_paused THEN Fail("NotAuthorized")
    ELSE Done([Ledger EXCEPT !.pool.is_paused = TRUE],
              <<[event |-> "ProtocolPaused"]>>)

\* Faulty variant: resuming also restarts the outbound nonce.
unpause_resets_nonce(signer) ==
    IF signer # pool.admin THEN Fail("ConstraintHasOne")
    ELSE IF ~pool.is_paused THEN Fail("NotAuthorized")
    ELSE Done([Ledger EXCEPT !.pool.is_paused = FALSE, !.pool.message_nonce = 0],
              <<[event |-> "ProtocolUnpaused"]>>)

unpause(signer) ==
    IF signer # pool.admin THEN Fail("ConstraintHasOne")
    ELSE IF ~pool.is_paused THEN Fail("NotAuthorized")
    ELSE Done([Ledger EXCEPT !.pool.is_paused = FALSE],
              <<[event |-> "ProtocolUnpaused"]>>)

\* Faulty variant: the destination chain is not checked.
send_any_chain(user, dst_eid, message_len, native_fee) ==
    IF ~(native_fee >= calculate_message_fee(message_len))
    THEN Fail("InsufficientFee")
    ELSE Done([Ledger EXCEPT !.pool.message_nonce = @ + 1],
              <<[event |-> "CrossChainMessageSent", user |-> user,
                 nonce |-> (pool.message_nonce + 1) - 1]>>)

\* Faulty variant: the nonce is not incremented.
send_same_nonce(user, dst_eid, message_len, native_fee) ==
    IF dst_eid \notin pool.supported_chains THEN Fail("ChainNotSupported")
    ELSE IF ~(native_fee >= calculate_message_fee(message_len))
         THEN Fail("InsufficientFee")
    ELSE Done(Ledger,
              <<[event |-> "CrossChainMessageSent", user |-> user,
                 nonce |-> pool.message_nonce]>>)

\* Faulty variant: the supplied fee is not checked.
send_any_fee(user, dst_eid, message_len, native_fee) ==
    IF dst_eid \notin pool.supported_chains THEN Fail("ChainNotSupported")
    ELSE Done([Ledger EXCEPT !.pool.message_nonce = @ + 1],
              <<[event |-> "CrossChainMessageSent", user |-> user,
                 nonce |-> (pool.message_nonce + 1) - 1]>>)

send(user, dst_eid, message_len, native_fee) ==
    IF dst_eid \notin pool.supported_chains THEN Fail("ChainNotSupported")
    ELSE IF ~(native_fee >= calculate_message_fee(message_len))
         THEN Fail("InsufficientFee")
    ELSE Done([Ledger EXCEPT !.pool.message_nonce = @ + 1],
              <<[event |-> "CrossChainMessageSent", user |-> user,
                 nonce |-> (pool.message_nonce + 1) - 1]>>)

\* layerzero_endpoint_clear: logs, and clears nothing.
layerzero_endpoint_clear(src_eid, sender, nonce) == "Ok"

lz_receive(src_eid, sender, nonce, payload) ==
    LET message == try_from_slice(payload)
    IN
    IF sender # PeerAddress[src_eid] THEN Fail("ConstraintRaw")
    ELSE IF src_eid \notin pool.supported_chains THEN Fail("ChainNotSupported")
    ELSE IF ~message.ok THEN Fail("CrossChainFailed")
    ELSE IF message.action \notin {"repay", "liquidate"} THEN Fail("CrossChainFailed")
    ELSE IF layerzero_endpoint_clear(src_eid, sender, nonce) # "Ok"
         THEN Fail("LayerZeroCpiFailed")
    ELSE Done(Ledger,
              <<[event |-> "CrossChainMessageReceived", user |-> message.user,
                 action |-> message.action, amount |-> message.amount]>>)

\* process_cross_chain_repay and process_cross_chain_liquidation: they log,
\* and leave the ledger as it is.
process_cross_chain_repay(message) == Ledger
process_cross_chain_liquidation(message) == Ledger

\* Faulty variant: every action is dispatched.
layerzero_receive_any_action(src_chain_id, payload) ==
    LET message == try_from_slice(payload)
    IN
    IF pool.is_paused THEN Fail("NotAuthorized")
    ELSE IF src_chain_id \notin pool.supported_chains THEN Fail("ChainNotSupported")
    ELSE IF ~message.ok THEN Fail("CrossChainFailed")
    ELSE Done(process_cross_chain_repay(message),
              <<[event |-> "CrossChainMessageReceived", user |-> message.user,
                 action |-> message.action, amount |-> message.amount]>>)

layerzero_receive(src_chain_id, payload) ==
    LET message == try_from_slice(payload)
    IN
    IF pool.is_paused THEN Fail("NotAuthorized")
    ELSE IF src_chain_id \notin pool.supported_chains THEN Fail("ChainNotSupported")
    ELSE IF ~message.ok THEN Fail("CrossChainFailed")
    ELSE IF message.action \notin {"repay", "liquidate"} THEN Fail("CrossChainFailed")
    ELSE Done(IF message.action = "repay"
              THEN process_cross_chain_repay(message)
              ELSE process_cross_chain_liquidation(message),
              <<[event |-> "CrossChainMessageReceived", user |-> message.user,
                 action |-> message.action, amount |-> message.amount]>>)

(***************************************************************************)
(* Actions: one per instruction, and the clock                             *)
(***************************************************************************)
\* An instruction ended with outcome r.
Commit(r) ==
    /\ pool' = r.ledger.pool
    /\ assets' = r.ledger.assets
    /\ positions' = r.ledger.positions
    /\ tokens' = r.ledger.tokens

AddSupportedAsset ==
    \E signer \in Signers, mint \in Mints :
      \E config \in AssetConfigs[mint] :
        /\ Commit(add_supported_asset(signer, mint, config))
        /\ UNCHANGED <<now, delivered, probe>>

Deposit ==
    \E user \in Users, mint \in Mints, amount \in Amounts :
        /\ Commit(deposit(user, mint, amount))
        /\ UNCHANGED <<now, delivered, probe>>

BorrowCrossChain ==
    \E user \in Users, mint \in Mints, amount \in Amounts, chain \in Chains :
        /\ pool.message_nonce < MaxNonce
        /\ Commit(borrow_cross_chain(user, mint, amount, chain))
        /\ UNCHANGED <<now, delivered, probe>>

Repay ==
    \E user \in Users, mint \in Mints, amount \in Amounts :
        /\ Commit(repay(user, mint, amount))
        /\ UNCHANGED <<now, delivered, probe>>

Withdraw ==
    \E user \in Users, mint \in Mints, amount \in Amounts, remaining \in {0, 1} :
        /\ Commit(withdraw(user, mint, amount, remaining))
        /\ UNCHANGED <<now, delivered, probe>>

Liquidate ==
    \E liquidator \in Liquidators, borrower \in Users, debt_mint \in Mints,
       collateral_mint \in Mints, amount \in Amounts :
        /\ Commit(liquidate(liquidator, borrower, debt_mint, collateral_mint, amount))
        /\ UNCHANGED <<now, delivered, probe>>

Pause ==
    \E signer \in Signers :
        /\ Commit(pause(signer))
        /\ UNCHANGED <<now, delivered, probe>>

Unpause ==
    \E signer \in Signers :
        /\ Commit(unpause(signer))
        /\ UNCHANGED <<now, delivered, probe>>

Send ==
    \E user \in Users, chain \in Chains, len \in MessageLens, fee \in NativeFees :
        /\ pool.message_nonce < MaxNonce
        /\ Commit(send(user, chain, len, fee))
        /\ UNCHANGED <<now, delivered, probe>>

LzReceive ==
    \E src_eid \in Chains, sender \in Senders, nonce \in InboundNonces,
       payload \in Payloads :
        LET r == lz_receive(src_eid, sender, nonce, payload)
            triple == <<src_eid, sender, nonce>>
        IN  /\ Commit(r)
            /\ delivered' = IF r.err = "Ok" THEN delivered \cup {triple}
                            ELSE delivered
            /\ UNCHANGED <<now, probe>>

LayerZeroReceive ==
    \E src_chain_id \in Chains, payload \in Payloads :
        /\ Commit(layerzero_receive(src_chain_id, payload))
        /\ UNCHANGED <<now, delivered, probe>>

Tick ==
    \E t \in ClockSamples :
        /\ t > now
        /\ now' = t
        /\ UNCHANGED <<pool, assets, positions, tokens, delivered, probe>>

Next ==
    \/ AddSupportedAsset
    \/ Deposit
    \/ BorrowCrossChain
    \/ Repay
    \/ Withdraw
    \/ Liquidate
    \/ Pause
    \/ Unpause
    \/ Send
    \/ LzReceive
    \/ LayerZeroReceive
    \/ Tick

Spec == Init /\ [][Next]_vars


(***************************************************************************)
(* The helper functions on their own: the arguments are drawn at the       *)
(* start and the function is applied to them.                              *)
(***************************************************************************)
ProbeValues     == {U64(0), U64(1), U64(3), U64(19), U64(20), Pow10(17)}
ProbeThresholds == {LIQUIDATION_THRESHOLD, MAX_LTV, PRECISION}
\* last_action_timestamp of the position checked: long ago, and just now.
ProbeTimestamps == {0, COOLDOWN_SECONDS}
ProbeDebts      == {U64(0), U64(1), U64(3), U64(100)}
ProbePrices     == {U64(0), U64(1), U64(3), U64(7), get_asset_price}
ProbeBonuses    == {U64(0), LIQUIDATION_BONUS, PRECISION}

ProbeInputs ==
    { [fn |-> "calculate_health_factor", args |-> <<c, b, t>>,
       done |-> FALSE, out |-> <<>>] :
          c \in ProbeValues, b \in ProbeValues, t \in ProbeThresholds }
    \cup
    { [fn |-> "liquidation_check", args |-> <<c, b, t>>,
       done |-> FALSE, out |-> <<>>] :
          c \in ProbeValues, b \in ProbeValues, t \in ProbeTimestamps }
    \cup
    { [fn |-> "calculate_liquidation_amount", args |-> <<d, dp, cp, bonus>>,
       done |-> FALSE, out |-> <<>>] :
          d \in ProbeDebts, dp \in ProbePrices, cp \in ProbePrices,
          bonus \in ProbeBonuses }

InitFn == Genesis /\ probe \in ProbeInputs

ApplyHealthFactor ==
    /\ probe.fn = "calculate_health_factor"
    /\ ~probe.done
    /\ probe' = [probe EXCEPT
                   !.done = TRUE,
                   !.out = calculate_health_factor(probe.args[1], probe.args[2],
                                                   probe.args[3])]
    /\ UNCHANGED <<now, pool, assets, positions, tokens, delivered>>

ApplyLiquidationCheck ==
    /\ probe.fn = "liquidation_check"
    /\ ~probe.done
    /\ probe' = [probe EXCEPT
                   !.done = TRUE,
                   !.out = liquidation_check(
                               [ZeroPosition EXCEPT
                                  !.user = "u1",
                                  !.total_collateral_value_usd = probe.args[1],
                                  !.total_borrow_value_usd = probe.args[2],
                                  !.last_action_timestamp = probe.args[3]])]
    /\ UNCHANGED <<now, pool, assets, positions, tokens, delivered>>

ApplyLiquidationAmount ==
    /\ probe.fn = "calculate_liquidation_amount"
    /\ ~probe.done
    /\ probe' = [probe EXCEPT
                   !.done = TRUE,
                   !.out = calculate_liquidation_amount(
                               probe.args[1], probe.args[2], probe.args[3],
                               probe.args[4])]
    /\ UNCHANGED <<now, pool, assets, positions, tokens, delivered>>

NextFn ==
    \/ ApplyHealthFactor
    \/ ApplyLiquidationCheck
    \/ ApplyLiquidationAmount

SpecFn == InitFn /\ [][NextFn]_vars

(***************************************************************************)
(* Properties                                                              *)
(***************************************************************************)
RECURSIVE SumOf(_, _)
SumOf(f, S) ==
    IF S = {} THEN <<>>
    ELSE LET x == CHOOSE y \in S : TRUE
         IN  Add(f[x], SumOf(f, S \ {x}))

SumCollateral(mint) ==
    SumOf([u \in Users |-> positions[<<u, mint>>].collateral_balance], Users)

SumBorrows(mint) ==
    SumOf([u \in Users |-> positions[<<u, mint>>].borrow_balance], Users)

\* C1: in every reachable state each asset's total_deposits is the sum of the
\* collateral balances of its positions and its total_borrows the sum of
\* their borrow balances.
C1_AggregatesMatchPositions ==
    \A m \in Mints :
        /\ assets[m].total_deposits = SumCollateral(m)
        /\ assets[m].total_borrows = SumBorrows(m)

\* C1, witness: two users hold collateral of one asset, one of them after a
\* deposit and a withdrawal, and the aggregate is their sum.
C1_Witness ==
    \E m \in Mints :
        /\ positions[<<"u1", m>>].collateral_balance = U64(2)
        /\ positions[<<"u2", m>>].collateral_balance = U64(1)
        /\ tokens.wallet[<<"u2", m>>] = U64(1)
        /\ assets[m].total_deposits = U64(3)


\* C2: a borrow_cross_chain that succeeds leaves the position's borrow value
\* within collateral value * ltv / PRECISION, and one with valid parameters
\* that would exceed that bound fails with HealthFactorTooLow or
\* InsufficientCollateral and changes nothing.
C2_BorrowWithinLtv ==
    \A user \in Users, mint \in Mints, amount \in Amounts, dest \in Chains :
        LET position == positions[<<user, mint>>]
            asset    == assets[mint]
            r        == borrow_cross_chain(user, mint, amount, dest)
            collateral_value_usd ==
                Div(Mul(position.collateral_balance, get_asset_price),
                    Pow10(asset.decimals))
            borrow_value_usd ==
                Add(position.total_borrow_value_usd,
                    Div(Mul(amount, get_asset_price), Pow10(asset.decimals)))
            limit == Div(Mul(collateral_value_usd, asset.ltv), PRECISION)
            valid == /\ asset.exists /\ PositionExists(position)
                     /\ Gt(amount, <<>>) /\ ~pool.is_paused
                     /\ asset.is_active /\ asset.can_be_borrowed
                     /\ dest \in pool.supported_chains
                     /\ ~RateLimited(position)
        IN  /\ r.err = "Ok" => Le(borrow_value_usd, limit)
            /\ (valid /\ Gt(borrow_value_usd, limit)) =>
                   /\ r.err \in {"HealthFactorTooLow", "InsufficientCollateral"}
                   /\ r.ledger = Ledger

\* C3: once lz_receive has accepted a (src_eid, sender, nonce) triple, every
\* later lz_receive of the same triple is rejected and changes nothing.
C3_ReplayRejected ==
    \A triple \in delivered, payload \in Payloads :
        LET r == lz_receive(triple[1], triple[2], triple[3], payload)
        IN  r.err # "Ok" /\ r.ledger = Ledger

\* C4: liquidate on a position whose health factor is at or above
\* MIN_HEALTH_FACTOR fails and changes nothing, and the failure is
\* LiquidationNotAllowed whenever the debt amount is a valid one.
C4_HealthyNotLiquidatable ==
    \A liquidator \in Liquidators, borrower \in Users, debt_mint \in Mints,
       collateral_mint \in Mints, debt_amount \in Amounts :
        LET position == positions[<<borrower, debt_mint>>]
            health_factor ==
                calculate_health_factor(position.total_collateral_value_usd,
                                        position.total_borrow_value_usd,
                                        LIQUIDATION_THRESHOLD)
            r == liquidate(liquidator, borrower, debt_mint, collateral_mint,
                           debt_amount)
        IN  (/\ PositionExists(position)
             /\ health_factor # None
             /\ Ge(health_factor, MIN_HEALTH_FACTOR)) =>
                /\ r.err # "Ok"
                /\ r.ledger = Ledger
                /\ Gt(debt_amount, <<>>) => r.err = "LiquidationNotAllowed"

\* C4, witness: a liquidator with tokens to repay with is turned away from a
\* position that holds collateral and owes nothing.
C4_Witness ==
    \E liquidator \in Liquidators, borrower \in Users, mint \in Mints :
        /\ PositionExists(positions[<<borrower, mint>>])
        /\ positions[<<borrower, mint>>].collateral_balance = U64(2)
        /\ positions[<<borrower, mint>>].health_factor = U64_MAX
        /\ Ge(tokens.wallet[<<liquidator, mint>>], U64(1))
        /\ liquidate(liquidator, borrower, mint, mint, U64(1)).err
               = "LiquidationNotAllowed"


\* C5: liquidate's eligibility check accepts a position exactly when its
\* health factor, collateral value * threshold / borrow value, is strictly
\* below MIN_HEALTH_FACTOR.
C5_EligibleBelowMin ==
    (probe.fn = "liquidation_check" /\ probe.done) =>
        LET collateral_usd == probe.args[1]
            borrow_usd     == probe.args[2]
            below_min ==
                /\ borrow_usd # <<>>
                /\ Lt(Mul(collateral_usd, LIQUIDATION_THRESHOLD),
                      Mul(MIN_HEALTH_FACTOR, borrow_usd))
        IN  (probe.out = "Ok") <=> below_min


\* C6: a successful deposit raises the caller's collateral_balance and the
\* asset's total_deposits by exactly the amount, and a successful withdraw
\* lowers both by exactly the amount.
C6_DepositWithdrawExact ==
    \A user \in Users, mint \in Mints, amount \in Amounts :
        LET position == positions[<<user, mint>>]
            asset    == assets[mint]
            d        == deposit(user, mint, amount)
            w        == withdraw(user, mint, amount, 1)
        IN  /\ d.err = "Ok" =>
                /\ d.ledger.positions[<<user, mint>>].collateral_balance
                       = Add(position.collateral_balance, amount)
                /\ d.ledger.assets[mint].total_deposits
                       = Add(asset.total_deposits, amount)
            /\ w.err = "Ok" =>
                /\ Add(w.ledger.positions[<<user, mint>>].collateral_balance, amount)
                       = position.collateral_balance
                /\ Add(w.ledger.assets[mint].total_deposits, amount)
                       = asset.total_deposits

\* C6, witness: a position that holds collateral after a deposit, from which
\* a withdrawal succeeds and into which a further deposit succeeds.
C6_Witness ==
    \E user \in Users, mint \in Mints :
        /\ positions[<<user, mint>>].collateral_balance = U64(1)
        /\ assets[mint].total_deposits = U64(1)
        /\ deposit(user, mint, U64(1)).err = "Ok"
        /\ withdraw(user, mint, U64(1), 1).err = "Ok"

\* C7: a deposit stamps the position with the time it succeeded at; a
\* further deposit on that position before the stamp plus 900 seconds fails
\* and changes nothing, with RateLimited when nothing else is wrong with it,
\* and from the stamp plus 900 seconds on the rate limiter does not reject it.
C7_DepositCooldown ==
    /\ [](\A user \in Users, mint \in Mints, amount \in Amounts :
            LET position == positions[<<user, mint>>]
                asset    == assets[mint]
                r        == deposit(user, mint, amount)
            IN  PositionExists(position) =>
                  IF now < position.last_action_timestamp + COOLDOWN_SECONDS
                  THEN /\ r.err # "Ok"
                       /\ r.ledger = Ledger
                       /\ (/\ Gt(amount, <<>>) /\ ~pool.is_paused
                           /\ asset.is_active /\ asset.can_be_collateral)
                              => r.err = "RateLimited"
                  ELSE r.err # "RateLimited")
    /\ [][\A k \in Users \X Mints :
            Gt(positions'[k].collateral_balance, positions[k].collateral_balance)
                => positions'[k].last_action_timestamp = now]_vars

\* C7, witness: 899 seconds after a deposit the next one on the same
\* position, from a wallet that could pay for it, is rate limited.
C7_Witness ==
    \E user \in Users, mint \in Mints :
        /\ positions[<<user, mint>>].collateral_balance = U64(1)
        /\ positions[<<user, mint>>].last_action_timestamp = COOLDOWN_SECONDS
        /\ now = 2 * COOLDOWN_SECONDS - 1
        /\ Ge(tokens.wallet[<<user, mint>>], U64(1))
        /\ deposit(user, mint, U64(1)).err = "RateLimited"

\* C8: while a position's last_action_timestamp + 900 > now, borrow_cross_chain,
\* repay and withdraw on it fail and change no state, and fail with
\* RateLimited unless a check on their parameters refuses them first.
C8_CooldownOnAll ==
    \A user \in Users, mint \in Mints, amount \in Amounts, dest \in Chains :
        LET position == positions[<<user, mint>>]
            refusals == {"RateLimited", "InvalidAmount", "NotAuthorized",
                         "AssetNotSupported", "ChainNotSupported",
                         "PositionNotFound", "InsufficientCollateral"}
        IN  (PositionExists(position) /\ RateLimited(position)) =>
                \A r \in {borrow_cross_chain(user, mint, amount, dest),
                          repay(user, mint, amount),
                          withdraw(user, mint, amount, 1)} :
                    r.err \in refusals /\ r.ledger = Ledger

\* C9: a successful deposit, borrow_cross_chain, repay or withdraw leaves the
\* position's last_action_timestamp at the current time.
C9_StampOnSuccess ==
    \A user \in Users, mint \in Mints, amount \in Amounts, dest \in Chains :
        \A r \in {deposit(user, mint, amount),
                  borrow_cross_chain(user, mint, amount, dest),
                  repay(user, mint, amount),
                  withdraw(user, mint, amount, 1)} :
            r.err = "Ok" =>
                r.ledger.positions[<<user, mint>>].last_action_timestamp = now

\* C10 as stated: calculate_health_factor returns u64::MAX when the borrow
\* value is 0 and otherwise, whenever it returns,
\* ((collateral * threshold) / PRECISION) * PRECISION / borrow.
C10_TwoStepQuotient ==
    (probe.fn = "calculate_health_factor" /\ probe.done /\ probe.out # None) =>
        LET collateral_usd == probe.args[1]
            borrow_usd     == probe.args[2]
            threshold      == probe.args[3]
        IN  probe.out =
                IF borrow_usd = <<>> THEN U64_MAX
                ELSE Div(Mul(Div(Mul(collateral_usd, threshold), PRECISION),
                             PRECISION),
                         borrow_usd)

\* C10, amended: calculate_health_factor returns u64::MAX when the borrow
\* value is 0; otherwise it aborts when collateral * threshold does not fit
\* u64 and returns (collateral * threshold) / borrow when it does.
C10_SingleQuotient ==
    (probe.fn = "calculate_health_factor" /\ probe.done) =>
        LET collateral_usd == probe.args[1]
            borrow_usd     == probe.args[2]
            threshold      == probe.args[3]
            product        == Mul(collateral_usd, threshold)
        IN  probe.out =
                IF borrow_usd = <<>> THEN U64_MAX
                ELSE IF Gt(product, U64_MAX) THEN None
                ELSE Div(product, borrow_usd)

\* C10, witness: collateral 19 against borrow 20 at the 95% threshold gives
\* 19 * 0.95e18 / 20, where dividing by PRECISION first would have lost the
\* fraction of 18.05.
C10_Witness ==
    /\ probe.fn = "calculate_health_factor"
    /\ probe.done
    /\ probe.args = <<U64(19), U64(20), LIQUIDATION_THRESHOLD>>
    /\ probe.out = Div(MulLimb(LIQUIDATION_THRESHOLD, 19), U64(20))
    /\ probe.out # Div(MulLimb(PRECISION, 18), U64(20))


\* C11: in every reachable state every position a deposit has created stores
\* health factor u64::MAX exactly when its stored borrow value is 0, and
\* stores calculate_health_factor of its stored collateral value, stored
\* borrow value and the liquidation threshold in every case.
C11_StoredHealthFactor ==
    \A k \in Users \X Mints :
        LET position == positions[k]
        IN  PositionExists(position) =>
              /\ (position.health_factor = U64_MAX)
                     <=> (position.total_borrow_value_usd = <<>>)
              /\ position.health_factor =
                     calculate_health_factor(position.total_collateral_value_usd,
                                             position.total_borrow_value_usd,
                                             LIQUIDATION_THRESHOLD)

\* C11, witness: a position that a deposit created and a withdrawal has
\* since reduced stores u64::MAX against a borrow value of 0.
C11_Witness ==
    \E user \in Users, mint \in Mints :
        /\ PositionExists(positions[<<user, mint>>])
        /\ positions[<<user, mint>>].collateral_balance = U64(1)
        /\ tokens.wallet[<<user, mint>>] = U64(1)
        /\ positions[<<user, mint>>].total_borrow_value_usd = <<>>
        /\ positions[<<user, mint>>].health_factor = U64_MAX

\* C13: a borrow_cross_chain with valid parameters succeeds when the
\* resulting borrow value is within collateral value * ltv / PRECISION and
\* fails when it is above.
C13_BorrowUpToCeiling ==
    \A user \in Users, mint \in Mints, amount \in Amounts, dest \in Chains :
        LET position == positions[<<user, mint>>]
            asset    == assets[mint]
            r        == borrow_cross_chain(user, mint, amount, dest)
            collateral_value_usd ==
                Div(Mul(position.collateral_balance, get_asset_price),
                    Pow10(asset.decimals))
            borrow_value_usd ==
                Add(position.total_borrow_value_usd,
                    Div(Mul(amount, get_asset_price), Pow10(asset.decimals)))
            ceiling == Div(Mul(collateral_value_usd, asset.ltv), PRECISION)
        IN  (/\ asset.exists /\ PositionExists(position)
             /\ Gt(amount, <<>>) /\ ~pool.is_paused
             /\ asset.is_active /\ asset.can_be_borrowed
             /\ dest \in pool.supported_chains
             /\ ~RateLimited(position)) =>
                IF Le(borrow_value_usd, ceiling)
                THEN r.err = "Ok"
                ELSE r.err # "Ok" /\ r.ledger = Ledger

\* C14: after a successful deposit the position's stored collateral value is
\* the USD value of its collateral balance at the asset's price and the
\* token's decimals.
C14_DepositStoresValue ==
    \A user \in Users, mint \in Mints, amount \in Amounts :
        LET r == deposit(user, mint, amount)
            position == r.ledger.positions[<<user, mint>>]
        IN  r.err = "Ok" =>
                position.total_collateral_value_usd =
                    Div(Mul(position.collateral_balance, get_asset_price),
                        Pow10(MintDecimals[mint]))

\* C15: an inbound message whose sender is not the peer registered for its
\* source chain is rejected by lz_receive and by layerzero_receive, and
\* changes nothing.
C15_StrangerRejected ==
    \A src \in Chains, sender \in Senders, nonce \in InboundNonces,
       payload \in Payloads :
        sender # PeerAddress[src] =>
            /\ lz_receive(src, sender, nonce, payload).err # "Ok"
            /\ lz_receive(src, sender, nonce, payload).ledger = Ledger
            /\ layerzero_receive(src, payload).err # "Ok"
            /\ layerzero_receive(src, payload).ledger = Ledger


\* C16: a received message with action repay that is accepted lowers the
\* borrow balance of the user it names by the amount it carries.
C16_ReceivedRepayApplied ==
    \A src \in Chains, sender \in Senders, nonce \in InboundNonces,
       payload \in Payloads :
        LET message == try_from_slice(payload)
            k       == <<message.user, message.asset>>
        IN  (message.ok /\ message.action = "repay") =>
                \A r \in {lz_receive(src, sender, nonce, payload),
                          layerzero_receive(src, payload)} :
                    r.err = "Ok" =>
                        Add(r.ledger.positions[k].borrow_balance, message.amount)
                            = positions[k].borrow_balance

\* C17: a receive whose payload does not decode, or whose action is neither
\* repay nor liquidate, fails, emits nothing and changes nothing; it fails
\* with CrossChainFailed once the checks that come before decoding pass.
C17_BadPayloadRejected ==
    \A src \in Chains, sender \in Senders, nonce \in InboundNonces,
       payload \in Payloads :
        LET message == try_from_slice(payload)
            lz      == lz_receive(src, sender, nonce, payload)
            lzr     == layerzero_receive(src, payload)
        IN  (~message.ok \/ message.action \notin {"repay", "liquidate"}) =>
                /\ \A r \in {lz, lzr} :
                       r.err # "Ok" /\ r.events = <<>> /\ r.ledger = Ledger
                /\ (sender = PeerAddress[src] /\ src \in pool.supported_chains)
                       => lz.err = "CrossChainFailed"
                /\ (~pool.is_paused /\ src \in pool.supported_chains)
                       => lzr.err = "CrossChainFailed"

\* C17, witness: after a well-formed repay message has been accepted, the
\* registered peer delivers a borrow message and an empty payload from a
\* supported chain, and both are refused with CrossChainFailed.
C17_Witness ==
    /\ delivered # {}
    /\ ~pool.is_paused
    /\ \E src \in Chains :
         /\ lz_receive(src, PeerAddress[src], 1,
                       Message("borrow", "u1", U64(1), "m2", 1)).err
                = "CrossChainFailed"
         /\ lz_receive(src, PeerAddress[src], 1, <<>>).err = "CrossChainFailed"
         /\ layerzero_receive(src, Message("borrow", "u1", U64(1), "m2", 1)).err
                = "CrossChainFailed"
         /\ layerzero_receive(src, <<>>).err = "CrossChainFailed"

\* C18: borrow_cross_chain and send to a chain, and a receive from a chain,
\* that is not in the pool's supported-chain set fail and change nothing;
\* they fail with ChainNotSupported once the checks that come before the
\* chain check pass.
C18_UnsupportedChainRejected ==
    \A chain \in Chains :
        chain \notin pool.supported_chains =>
            /\ \A user \in Users, mint \in Mints, amount \in Amounts :
                   LET position == positions[<<user, mint>>]
                       asset    == assets[mint]
                       r        == borrow_cross_chain(user, mint, amount, chain)
                   IN  /\ r.err # "Ok" /\ r.ledger = Ledger
                       /\ (/\ asset.exists /\ PositionExists(position)
                           /\ Gt(amount, <<>>) /\ ~pool.is_paused
                           /\ asset.is_active /\ asset.can_be_borrowed)
                              => r.err = "ChainNotSupported"
            /\ \A user \in Users, len \in MessageLens, fee \in NativeFees :
                   LET r == send(user, chain, len, fee)
                   IN  r.err = "ChainNotSupported" /\ r.ledger = Ledger
            /\ \A sender \in Senders, nonce \in InboundNonces,
                  payload \in Payloads :
                   LET r == lz_receive(chain, sender, nonce, payload)
                   IN  /\ r.err # "Ok" /\ r.ledger = Ledger
                       /\ sender = PeerAddress[chain]
                              => r.err = "ChainNotSupported"
            /\ \A payload \in Payloads :
                   LET r == layerzero_receive(chain, payload)
                   IN  /\ r.err # "Ok" /\ r.ledger = Ledger
                       /\ ~pool.is_paused => r.err = "ChainNotSupported"

\* C18, witness: a user with collateral in a borrowable asset, the pool not
\* paused and one message already sent, is refused a borrow and a send to a
\* chain outside the set, and a receive from it is refused too.
C18_Witness ==
    \E user \in Users, mint \in Mints, chain \in Chains :
        /\ chain \notin pool.supported_chains
        /\ pool.message_nonce = 1
        /\ positions[<<user, mint>>].collateral_balance = U64(2)
        /\ borrow_cross_chain(user, mint, U64(1), chain).err = "ChainNotSupported"
        /\ send(user, chain, 32, calculate_message_fee(32)).err
               = "ChainNotSupported"
        /\ lz_receive(chain, PeerAddress[chain], 1,
                      Message("repay", "u1", U64(1), "m2", 1)).err
               = "ChainNotSupported"
        /\ layerzero_receive(chain, Message("repay", "u1", U64(1), "m2", 1)).err
               = "ChainNotSupported"


\* C19: pool.message_nonce never decreases; a successful send or
\* borrow_cross_chain raises it by exactly 1 and reports in its message-sent
\* record the value it had before, which is also the nonce
\* borrow_cross_chain puts in the message it builds; no other instruction
\* and no failed instruction changes it.
C19_NonceCounts ==
    /\ [](/\ \A user \in Users, chain \in Chains, len \in MessageLens,
                fee \in NativeFees :
                 LET r == send(user, chain, len, fee)
                 IN  IF r.err = "Ok"
                     THEN /\ r.ledger.pool.message_nonce = pool.message_nonce + 1
                          /\ r.events[1].nonce = pool.message_nonce
                     ELSE r.ledger = Ledger
          /\ \A user \in Users, mint \in Mints, amount \in Amounts,
                chain \in Chains :
                 LET r == borrow_cross_chain(user, mint, amount, chain)
                 IN  IF r.err = "Ok"
                     THEN /\ r.ledger.pool.message_nonce = pool.message_nonce + 1
                          /\ r.events[2].nonce = pool.message_nonce
                          /\ r.events[2].message[9] = pool.message_nonce
                     ELSE r.ledger = Ledger
          /\ \A user \in Users, mint \in Mints, amount \in Amounts :
                 \A r \in {deposit(user, mint, amount), repay(user, mint, amount),
                           withdraw(user, mint, amount, 0),
                           withdraw(user, mint, amount, 1)} :
                     r.ledger.pool.message_nonce = pool.message_nonce
          /\ \A liquidator \in Liquidators, borrower \in Users, debt_mint \in Mints,
                collateral_mint \in Mints, amount \in Amounts :
                 liquidate(liquidator, borrower, debt_mint, collateral_mint,
                           amount).ledger.pool.message_nonce = pool.message_nonce
          /\ \A signer \in Signers, mint \in Mints :
                 /\ pause(signer).ledger.pool.message_nonce = pool.message_nonce
                 /\ unpause(signer).ledger.pool.message_nonce = pool.message_nonce
                 /\ \A config \in AssetConfigs[mint] :
                        add_supported_asset(signer, mint, config)
                            .ledger.pool.message_nonce = pool.message_nonce
          /\ \A src \in Chains, sender \in Senders, nonce \in InboundNonces,
                payload \in Payloads :
                 /\ lz_receive(src, sender, nonce, payload)
                        .ledger.pool.message_nonce = pool.message_nonce
                 /\ layerzero_receive(src, payload)
                        .ledger.pool.message_nonce = pool.message_nonce)
    /\ [][pool'.message_nonce \in {pool.message_nonce, pool.message_nonce + 1}]_vars

\* C19, witness: one message has been sent with nonce 0, and the next send
\* reports nonce 1 and leaves the counter at 2.
C19_Witness ==
    /\ pool.message_nonce = 1
    /\ \E user \in Users, chain \in Chains :
         LET r == send(user, chain, 32, calculate_message_fee(32))
         IN  /\ r.err = "Ok"
             /\ r.events[1].nonce = 1
             /\ r.ledger.pool.message_nonce = 2

C21_PausedRefuses ==
    \A user \in Users, mint \in Mints, amount \in Amounts, chain \in Chains :
        LET position == positions[<<user, mint>>]
            asset    == assets[mint]
            d        == deposit(user, mint, amount)
            b        == borrow_cross_chain(user, mint, amount, chain)
        IN  IF pool.is_paused
            THEN /\ d.err # "Ok" /\ d.ledger = Ledger
                 /\ b.err # "Ok" /\ b.ledger = Ledger
                 /\ (asset.exists /\ Gt(amount, <<>>)) => d.err = "NotAuthorized"
                 /\ (asset.exists /\ PositionExists(position) /\ Gt(amount, <<>>))
                        => b.err = "NotAuthorized"
            ELSE d.err # "NotAuthorized" /\ b.err # "NotAuthorized"

\* C21, witness: the pool is paused, and a user whose cooldown has elapsed
\* and whose wallet could pay is refused a deposit and a borrow with
\* NotAuthorized.
C21_Witness ==
    /\ pool.is_paused
    /\ \E user \in Users, mint \in Mints, chain \in Chains :
         /\ positions[<<user, mint>>].collateral_balance = U64(1)
         /\ ~RateLimited(positions[<<user, mint>>])
         /\ Ge(tokens.wallet[<<user, mint>>], U64(1))
         /\ deposit(user, mint, U64(1)).err = "NotAuthorized"
         /\ borrow_cross_chain(user, mint, U64(1), chain).err = "NotAuthorized"

\* C22: pause and unpause by anyone but the pool's administrator fail and
\* change nothing, and every step that changes the paused flag is a
\* successful pause or unpause by the administrator.
C22_OnlyAdminToggles ==
    /\ [](\A signer \in Signers \ {pool.admin} :
              \A r \in {pause(signer), unpause(signer)} :
                  r.err # "Ok" /\ r.ledger = Ledger)
    /\ [][pool'.is_paused # pool.is_paused =>
            \E r \in {pause(pool.admin), unpause(pool.admin)} :
                /\ r.err = "Ok"
                /\ pool' = r.ledger.pool
                /\ assets' = assets /\ positions' = positions
                /\ tokens' = tokens]_vars

\* C22, witness: the administrator has paused the pool, and a user who asks
\* to unpause it is turned away while the administrator would not be.
C22_Witness ==
    /\ pool.is_paused
    /\ \E signer \in Signers \ {pool.admin} :
         /\ unpause(signer).err = "ConstraintHasOne"
         /\ pause(signer).err = "ConstraintHasOne"
    /\ unpause(pool.admin).err = "Ok"

C26_SeizeAmount ==
    (probe.fn = "calculate_liquidation_amount" /\ probe.done) =>
        LET debt_value   == Mul(probe.args[1], probe.args[2])
            bonus_mul    == Mul(debt_value, probe.args[4])
            total_value  == Add(debt_value, Div(bonus_mul, PRECISION))
            collateral_price == probe.args[3]
        IN  probe.out =
                IF \/ Gt(debt_value, U64_MAX) \/ Gt(bonus_mul, U64_MAX)
                   \/ Gt(total_value, U64_MAX) \/ collateral_price = <<>>
                THEN None
                ELSE Div(total_value, collateral_price)

\* C26, witness: debt 3 at price 7 with the 5% bonus against collateral
\* price 3: (21 + 21 * 0.05e18 / 1e18) / 3 = 22 / 3 = 7.
C26_Witness ==
    /\ probe.fn = "calculate_liquidation_amount"
    /\ probe.done
    /\ probe.args = <<U64(3), U64(7), U64(3), LIQUIDATION_BONUS>>
    /\ probe.out = U64(7)

\* C28: the eligibility check of liquidate gives the same outcome whatever
\* the position's last_action_timestamp is, and never RateLimited.
C28_LiquidateIgnoresCooldown ==
    (probe.fn = "liquidation_check" /\ probe.done) =>
        /\ probe.out # "RateLimited"
        /\ \A t \in ProbeTimestamps \cup ClockSamples :
               probe.out =
                   liquidation_check(
                       [ZeroPosition EXCEPT
                          !.user = "u1",
                          !.total_collateral_value_usd = probe.args[1],
                          !.total_borrow_value_usd = probe.args[2],
                          !.last_action_timestamp = t])

\* C28, witness: a position with collateral value 1 against borrow value 20
\* that acted this very second passes the check.
C28_Witness ==
    /\ probe.fn = "liquidation_check"
    /\ probe.done
    /\ probe.args = <<U64(1), U64(20), COOLDOWN_SECONDS>>
    /\ now = COOLDOWN_SECONDS
    /\ probe.out = "Ok"


\* C27: every registered asset has 0 < ltv <= liquidation_threshold <=
\* PRECISION.
C27_AssetBounds ==
    \A mint \in Mints :
        assets[mint].exists =>
            /\ Gt(assets[mint].ltv, <<>>)
            /\ Le(assets[mint].ltv, assets[mint].liquidation_threshold)
            /\ Le(assets[mint].liquidation_threshold, PRECISION)

\* C29: on a position without borrows whose cooldown has elapsed, withdrawing
\* an amount that was deposited before succeeds, takes exactly that amount
\* off collateral_balance and total_deposits, and leaves health_factor at
\* u64::MAX.
C29_DepositThenWithdraw ==
    \A user \in Users, mint \in Mints, amount \in Amounts :
        LET position == positions[<<user, mint>>]
            asset    == assets[mint]
            r        == withdraw(user, mint, amount, 1)
            after    == r.ledger.positions[<<user, mint>>]
        IN  (/\ asset.exists /\ PositionExists(position)
             /\ ~pool.is_paused
             /\ ~RateLimited(position)
             /\ position.borrow_balance = <<>>
             /\ Gt(amount, <<>>)
             /\ Ge(position.collateral_balance, amount))
                => /\ r.err = "Ok"
                   /\ after.collateral_balance =
                          Sub(position.collateral_balance, amount)
                   /\ r.ledger.assets[mint].total_deposits =
                          Sub(asset.total_deposits, amount)
                   /\ after.health_factor = U64_MAX


\* C31: while the pool is paused, no step changes a position's collateral or
\* borrow balance, an asset's total_deposits or total_borrows, or the
\* outbound message nonce.
C31_PausedFreezesLedger ==
    [][pool.is_paused =>
          /\ \A user \in Users, mint \in Mints :
                 /\ positions'[<<user, mint>>].collateral_balance =
                        positions[<<user, mint>>].collateral_balance
                 /\ positions'[<<user, mint>>].borrow_balance =
                        positions[<<user, mint>>].borrow_balance
          /\ \A mint \in Mints :
                 /\ assets'[mint].total_deposits = assets[mint].total_deposits
                 /\ assets'[mint].total_borrows = assets[mint].total_borrows
          /\ pool'.message_nonce = pool.message_nonce]_vars

\* C32: a borrow_cross_chain of an amount above 0 on a position whose
\* collateral_balance is 0 does not succeed and changes nothing, for every
\* user, mint, amount and destination chain.
C32_NoBorrowWithoutCollateral ==
    \A user \in Users, mint \in Mints, amount \in Amounts, chain \in Chains :
        LET r == borrow_cross_chain(user, mint, amount, chain)
        IN  (/\ positions[<<user, mint>>].collateral_balance = <<>>
             /\ Gt(amount, <<>>))
                => r.err # "Ok" /\ r.ledger = Ledger

\* C32, witness: an existing position with collateral 0 whose borrow gets as
\* far as the health factor check and fails there.
C32_Witness ==
    \E user \in Users, mint \in Mints, amount \in Amounts, chain \in Chains :
        /\ PositionExists(positions[<<user, mint>>])
        /\ positions[<<user, mint>>].collateral_balance = <<>>
        /\ Gt(amount, <<>>)
        /\ borrow_cross_chain(user, mint, amount, chain).err = "HealthFactorTooLow"


\* C33: given the same source chain and payload, and the registered peer of
\* that chain as sender, lz_receive and layerzero_receive end with the same
\* outcome and the same ledger.
C33_ReceiveEntryPointsAgree ==
    \A src_eid \in Chains, nonce \in InboundNonces, payload \in Payloads :
        LET a == lz_receive(src_eid, PeerAddress[src_eid], nonce, payload)
            b == layerzero_receive(src_eid, payload)
        IN  a.err = b.err /\ a.ledger = b.ledger


\* What an instruction of user on mint must leave alone in ledger l: every
\* other position, and the totals of every other asset.
OthersUntouched(l, user, mint) ==
    /\ \A u \in Users, m \in Mints :
           <<u, m>> # <<user, mint>> => l.positions[<<u, m>>] = positions[<<u, m>>]
    /\ \A m \in Mints :
           m # mint => /\ l.assets[m].total_deposits = assets[m].total_deposits
                       /\ l.assets[m].total_borrows = assets[m].total_borrows

\* The outbound nonce and the supported chains of ledger l are the current
\* ones.
MessagingUntouched(l) ==
    /\ l.pool.message_nonce = pool.message_nonce
    /\ l.pool.supported_chains = pool.supported_chains

\* C34: deposit, borrow_cross_chain, repay and withdraw of a user on a mint
\* leave every other position and every other asset's total_deposits and
\* total_borrows as they were; deposit, repay, withdraw, liquidate, pause and
\* unpause leave the outbound message nonce and the supported chains as they
\* were.
C34_Frame ==
    /\ \A user \in Users, mint \in Mints, amount \in Amounts :
           LET l == deposit(user, mint, amount).ledger
           IN  OthersUntouched(l, user, mint) /\ MessagingUntouched(l)
    /\ \A user \in Users, mint \in Mints, amount \in Amounts, chain \in Chains :
           OthersUntouched(borrow_cross_chain(user, mint, amount, chain).ledger,
                           user, mint)
    /\ \A user \in Users, mint \in Mints, amount \in Amounts :
           LET l == repay(user, mint, amount).ledger
           IN  OthersUntouched(l, user, mint) /\ MessagingUntouched(l)
    /\ \A user \in Users, mint \in Mints, amount \in Amounts, remaining \in {0, 1} :
           LET l == withdraw(user, mint, amount, remaining).ledger
           IN  OthersUntouched(l, user, mint) /\ MessagingUntouched(l)
    /\ \A liquidator \in Liquidators, borrower \in Users, debt_mint \in Mints,
          collateral_mint \in Mints, amount \in Amounts :
           MessagingUntouched(liquidate(liquidator, borrower, debt_mint,
                                        collateral_mint, amount).ledger)
    /\ \A signer \in Signers :
           /\ MessagingUntouched(pause(signer).ledger)
           /\ MessagingUntouched(unpause(signer).ledger)

\* C34, witness: once a message has been sent and while another position
\* holds collateral, a deposit succeeds.
C34_Witness ==
    /\ pool.message_nonce > 0
    /\ \E user \in Users, mint \in Mints, amount \in Amounts :
           /\ deposit(user, mint, amount).err = "Ok"
           /\ \E u \in Users, m \in Mints :
                  /\ <<u, m>> # <<user, mint>>
                  /\ Gt(positions[<<u, m>>].collateral_balance, <<>>)

=============================================================================
